---- MODULE Spec2Model ----
(***************************************************************************)
(* The PTY bridge of o-az/sandbox: one WebSocket connection attached to    *)
(* one shell process.  Two revisions of the node-pty bridge are modelled   *)
(* side by side, selected by the field impl of the session:                *)
(*   "uws"  - scripts/websocket.ts   (every chunk is sent at once)         *)
(*   "node" - unnamed/part_004       (output is coalesced in outputBuffer) *)
(* Each hook or callback of the source is one operator over the session    *)
(* record and one action of the specification.  The Bun bridge over plain  *)
(* pipes (unnamed/part_017) is modelled next to them, in the record shell; *)
(* conns holds two connections of one node-pty server.  Functions checked  *)
(* alone (parseControlMessage, the port, the paste listener) use probe.    *)
(***************************************************************************)
EXTENDS Integers, Sequences, FiniteSets, TLC

VARIABLES
  sess,     \* the session of the node-pty bridge's connection
  probe,    \* the argument given to a function checked alone, and what came back
  shell,    \* the connection of the pipe-fallback bridge and its subprocess
  conns     \* two connections of one node-pty server: its registry and processes

vars == <<sess, probe, shell, conns>>

\* what the actions of the bridge leave alone
notBridge == <<probe, shell, conns>>

\* what the actions of the parser probe leave alone
notProbe == <<sess, shell, conns>>

\* what the actions of the pipe-fallback bridge leave alone
notPipe == <<sess, probe, conns>>

\* what the actions of the two-connection server leave alone
notConns == <<sess, probe, shell>>

(***************************************************************************)
(* Bounds of the model.                                                    *)
(***************************************************************************)
MaxMsgs == 2
MaxChunks == 3
MaxPipeMsgs == 2
MaxEmits == 2
MaxPairMsgs == 2
MaxPairChunks == 1
MaxEnvLen == 5
MaxFragments == 3

(***************************************************************************)
(* Program constants.                                                      *)
(***************************************************************************)
DEFAULT_COLS == 120
DEFAULT_ROWS == 32
DEFAULT_PORT == 8080
MAX_PORT == 65535
BUFFER_MAX_SIZE == 262144

Impls == {"uws", "node"}

(***************************************************************************)
(* JavaScript values as JSON.parse returns them.                           *)
(***************************************************************************)
Undefined == [t |-> "undefined"]
JNull == [t |-> "null"]
JNum(n) == [t |-> "number", n |-> n]
JStr(str) == [t |-> "string", s |-> str]
JBool(b) == [t |-> "boolean", b |-> b]
JArray == [t |-> "array"]
JObj(type, cols, rows, id) ==
  [t |-> "object", type |-> type, cols |-> cols, rows |-> rows, id |-> id]

\* JSON.parse throws a SyntaxError on text that is not JSON.
SyntaxError == [t |-> "SyntaxError"]

\* An inbound frame: its text (what pty.write would receive) and what
\* JSON.parse makes of that text.
Frame(text, json) == [text |-> text, json |-> json]

(***************************************************************************)
(* The frames the client sends in the bridge specification.                *)
(***************************************************************************)
RawFrame == Frame("ls", SyntaxError)
PingFrame == Frame("ping", JObj(JStr("ping"), Undefined, Undefined, JStr("p1")))
InitFrame == Frame("init", JObj(JStr("init"), Undefined, Undefined, Undefined))
InitSized == Frame("init80", JObj(JStr("init"), JNum(80), JNum(24), Undefined))
ResizeFrame == Frame("resize", JObj(JStr("resize"), JNum(100), JNum(30), Undefined))
ResizeZero == Frame("resize0", JObj(JStr("resize"), JNum(0), JNum(30), Undefined))
ResizeBare == Frame("resizeBare", JObj(JStr("resize"), Undefined, Undefined, Undefined))
BraceFrame == Frame("{", SyntaxError)

Inbox ==
  {RawFrame, PingFrame, InitFrame, InitSized, ResizeFrame, ResizeZero, ResizeBare}

(***************************************************************************)
(* Output chunks of the process.  A chunk is named by its content; "M"     *)
(* stands for a block of BUFFER_MAX_SIZE characters.                       *)
(***************************************************************************)
Chunks == {"", "a", "M"}

ChunkLen(c) == CASE c = "" -> 0
                 [] c = "M" -> BUFFER_MAX_SIZE
                 [] OTHER -> 1

\* A string is held as the sequence of its non-empty chunks.
StrCat(str, c) == IF c = "" THEN str ELSE Append(str, c)

RECURSIVE StrLen(_)
StrLen(str) == IF str = <<>> THEN 0 ELSE ChunkLen(Head(str)) + StrLen(Tail(str))

(***************************************************************************)
(* parseControlMessage: JSON.parse inside try/catch, then the checks on    *)
(* the parsed value.  Undefined is "not a control message".                *)
(***************************************************************************)
\* !payload
Falsy(v) == \/ v.t \in {"null", "undefined"}
            \/ (v.t = "number" /\ v.n = 0)
            \/ (v.t = "string" /\ v.s = "")
            \/ (v.t = "boolean" /\ ~v.b)

\* typeof payload === 'object' (true of objects, arrays and null)
TypeofObject(v) == v.t \in {"object", "array", "null"}

\* payload.type: arrays and objects without the key give undefined
TypeField(v) == IF v.t = "object" THEN v.type ELSE Undefined

\* payload.type === name
TypeIs(v, name) == TypeField(v).t = "string" /\ TypeField(v).s = name

\* JSON.parse(raw): the parsed value, or SyntaxError for a throw
JsonParse(f) == f.json

\* the function with typeof payload.type === 'string' in place of the
\* three comparisons
ParseControlMessageAnyType(f) ==
  LET payload == JsonParse(f)
  IN IF payload = SyntaxError THEN Undefined
     ELSE IF Falsy(payload) \/ ~TypeofObject(payload) THEN Undefined
     ELSE IF TypeField(payload).t = "string" THEN payload
     ELSE Undefined

ParseControlMessage(f) ==
  LET payload == JsonParse(f)
  IN IF payload = SyntaxError THEN Undefined     \* caught: falls to the last return
     ELSE IF Falsy(payload) \/ ~TypeofObject(payload) THEN Undefined
     ELSE IF TypeIs(payload, "init") THEN payload
     ELSE IF TypeIs(payload, "resize") THEN payload
     ELSE IF TypeIs(payload, "ping") THEN payload
     ELSE Undefined

\* How the message hook treats a frame: as raw input, or by payload.type.
FrameClass(f) ==
  LET payload == ParseControlMessage(f)
  IN IF payload = Undefined THEN "raw" ELSE payload.type.s

(***************************************************************************)
(* The session of one connection: the registry entry (sessions), the peer, *)
(* the PtySession fields, the process, and the history the properties are  *)
(* stated over (out, writes, produced, counters, last).                    *)
(***************************************************************************)
\* The last hook or callback that ran: its kind, what it was given, and the
\* registry entry it found.
Event(kind, class, pre) == [kind |-> kind, class |-> class, pre |-> pre]

NoEvent == Event("none", "none", "none")

NewSession(impl) ==
  [ impl |-> impl,
    reg |-> "none",             \* sessions.get(peer): none | idle | ready | deleted
    readyState |-> 0,           \* peer.readyState: 0 connecting, 1 open, 2 closing, 3 closed
    closeCode |-> 0,            \* code the socket was closed with (0: not closed)
    closeRan |-> FALSE,         \* the close hook has run
    pty |-> "none",             \* none | running | killed | exited
    cols |-> Undefined,         \* session.cols, a JavaScript value
    rows |-> Undefined,
    outputBuffer |-> <<>>,
    userInputPending |-> FALSE,
    flushTimer |-> 0,           \* the handle held by the session (0: null)
    timers |-> {},              \* timers pending in the event loop
    out |-> <<>>,               \* frames delivered to the client
    closedSends |-> 0,          \* peer.send calls made while the socket was not open
    writes |-> <<>>,            \* pty.write calls
    deadWrites |-> 0,           \* pty.write calls made after the process exited
    resizes |-> 0,              \* pty.resize calls
    kills |-> 0,                \* pty.kill calls
    produced |-> <<>>,          \* output the process emitted, in order
    spawned |-> 0,              \* successful spawn() calls
    spawnFailed |-> 0,          \* spawn() calls that threw
    nMsgs |-> 0,
    nData |-> 0,
    nErrors |-> 0,
    inputSinceFlush |-> FALSE,  \* input was written and no chunk or flush followed yet
    last |-> NoEvent ]

(***************************************************************************)
(* The connection of the pipe-fallback bridge: ws.data, the socket, the    *)
(* ShellSession fields, the subprocess with its two output pipes, the two  *)
(* forwardStream pumps, and the history the properties are stated over.    *)
(***************************************************************************)
Streams == {"stdout", "stderr"}

NewShell ==
  [ status |-> "none",          \* ws.data.status: none (not upgraded) | idle | ready
    readyState |-> 0,           \* ws.readyState
    closeCode |-> 0,
    closeRan |-> FALSE,         \* the close hook has run
    process |-> "none",         \* none | running | killed (SIGTERM sent) | exited
    exitCode |-> Undefined,
    exitedRan |-> FALSE,        \* the callback of subprocess.exited has run
    cols |-> Undefined,
    rows |-> Undefined,
    suppressions |-> <<>>,
    stdin |-> <<>>,             \* sink.write calls
    stdinEnded |-> FALSE,
    kills |-> 0,
    pipe |-> [st \in Streams |-> <<>>],      \* chunks written and not yet read
    pump |-> [st \in Streams |-> "none"],    \* none | reading | done
    out |-> <<>>,               \* frames delivered to the client
    produced |-> [st \in Streams |-> <<>>],  \* every chunk the process wrote
    forwarded |-> [st \in Streams |-> <<>>], \* chunks a pump read with the socket open
    spawnFailed |-> 0,
    nMsgs |-> 0,
    nEmits |-> 0 ]

(***************************************************************************)
(* Two connections of one server.  sessions is the WeakMap of the source,  *)
(* keyed by peer; the record of a peer also carries the fields of the      *)
(* PtySession its spawnPty closure holds.  ptys[p] is the process object   *)
(* held by the session of p (0: none), an index into the processes the     *)
(* server has spawned.                                                     *)
(***************************************************************************)
Peers == {1, 2}

NewConns(impl) ==
  [ sessions |-> [p \in Peers |-> NewSession(impl)],
    ptys |-> [p \in Peers |-> 0],
    spawns |-> 0,               \* processes spawned by the server so far
    actor |-> 0 ]               \* the peer whose hook or callback ran last

\* peer.send: a frame reaches the client only through an open socket.
Send(s, frame) ==
  IF s.readyState = 1 THEN [s EXCEPT !.out = Append(@, frame)]
  ELSE [s EXCEPT !.closedSends = @ + 1]

ReadyFrame == [type |-> "ready", data |-> <<>>]
PongFrame(id) == [type |-> "pong", data |-> <<id>>]
ExitFrame == [type |-> "process-exit", data |-> <<>>]
DataFrame(str) == [type |-> "data", data |-> str]

(***************************************************************************)
(* spawnPty and the callbacks it registers.                                *)
(***************************************************************************)
\* typeof v === 'number' && v > 0
PositiveNumber(v) == v.t = "number" /\ v.n > 0

\* v <= 0 as JavaScript compares: undefined converts to NaN, null to 0
LeqZero(v) == \/ (v.t = "number" /\ v.n <= 0)
              \/ v.t = "null"

SpawnOutcomes == {"ok", "throw"}

\* spawnPty with the spawn() call succeeding: the PtySession it returns.
SpawnPty(s, options) ==
  [s EXCEPT !.pty = "running",
            !.spawned = @ + 1,
            !.cols = IF PositiveNumber(options.cols) THEN options.cols
                     ELSE JNum(DEFAULT_COLS),
            !.rows = IF PositiveNumber(options.rows) THEN options.rows
                     ELSE JNum(DEFAULT_ROWS),
            !.outputBuffer = <<>>,
            !.flushTimer = 0,
            !.userInputPending = FALSE]

\* setTimeout: a handle that is neither pending nor held (one timer per
\* chunk at most, so MaxChunks + 1 handles always leave one free).
FreshTimer(s) ==
  CHOOSE id \in 1..(MaxChunks + 1) :
    /\ id \notin s.timers \cup {s.flushTimer}
    /\ \A j \in 1..(id - 1) : j \in s.timers \cup {s.flushTimer}

\* clearTimeout(handle)
ClearTimeout(s, handle) == [s EXCEPT !.timers = @ \ {handle}]

FlushOutputKeepsBuffer(s) ==
  IF s.outputBuffer = <<>> THEN s
  ELSE LET sent == IF s.readyState = 1 THEN Send(s, DataFrame(s.outputBuffer)) ELSE s
       IN IF sent.flushTimer # 0
          THEN [ClearTimeout(sent, sent.flushTimer) EXCEPT !.flushTimer = 0]
          ELSE sent

FlushOutput(s) ==
  IF s.outputBuffer = <<>> THEN s
  ELSE LET sent == IF s.readyState = 1 THEN Send(s, DataFrame(s.outputBuffer)) ELSE s
           emptied == [sent EXCEPT !.outputBuffer = <<>>]
       IN IF emptied.flushTimer # 0
          THEN [ClearTimeout(emptied, emptied.flushTimer) EXCEPT !.flushTimer = 0]
          ELSE emptied

\* pty.onData of the buffered bridge
OnDataBufferedNoCeiling(s, data) ==
  LET s1 == [s EXCEPT !.outputBuffer = StrCat(@, data)]
  IN IF s1.userInputPending
     THEN FlushOutput([s1 EXCEPT !.userInputPending = FALSE])
     ELSE IF s1.flushTimer = 0
          THEN LET id == FreshTimer(s1)
               IN [s1 EXCEPT !.flushTimer = id, !.timers = @ \cup {id}]
          ELSE s1

OnDataBufferedAlwaysArms(s, data) ==
  LET s1 == [s EXCEPT !.outputBuffer = StrCat(@, data)]
  IN IF s1.userInputPending \/ StrLen(s1.outputBuffer) > BUFFER_MAX_SIZE
     THEN FlushOutput([s1 EXCEPT !.userInputPending = FALSE])
     ELSE LET id == FreshTimer(s1)
          IN [s1 EXCEPT !.flushTimer = id, !.timers = @ \cup {id}]

OnDataBuffered(s, data) ==
  LET s1 == [s EXCEPT !.outputBuffer = StrCat(@, data)]
  IN IF s1.userInputPending \/ StrLen(s1.outputBuffer) > BUFFER_MAX_SIZE
     THEN FlushOutput([s1 EXCEPT !.userInputPending = FALSE])
     ELSE IF s1.flushTimer = 0
          THEN LET id == FreshTimer(s1)
               IN [s1 EXCEPT !.flushTimer = id, !.timers = @ \cup {id}]
          ELSE s1

\* pty.onData of the unbuffered bridge
OnDataDirect(s, data) ==
  IF s.readyState = 1 THEN Send(s, DataFrame(StrCat(<<>>, data))) ELSE s

OnData(s, data) ==
  IF s.impl = "node" THEN OnDataBuffered(s, data) ELSE OnDataDirect(s, data)

\* peer.close(code): the server starts the closing handshake
PeerClose(s, code) ==
  IF s.readyState = 1 THEN [s EXCEPT !.readyState = 2, !.closeCode = code] ELSE s

\* pty.onExit
OnExitFrameFirst(s) ==
  LET s1 == IF s.readyState = 1 THEN Send(s, ExitFrame) ELSE s
      s2 == IF s.impl = "node" THEN FlushOutput(s1) ELSE s1
  IN PeerClose(s2, 1000)

OnExit(s) ==
  LET s1 == IF s.impl = "node" THEN FlushOutput(s) ELSE s
  IN IF s1.readyState = 1
     THEN PeerClose(Send(s1, ExitFrame), 1000)
     ELSE s1

(***************************************************************************)
(* resizePty and the hooks of the connection.                              *)
(***************************************************************************)
ResizePty(s, cols, rows) ==
  IF LeqZero(cols) \/ LeqZero(rows) THEN s
  ELSE [s EXCEPT !.cols = cols, !.rows = rows, !.resizes = @ + 1]

\* pty.write(data)
PtyWrite(s, data) ==
  [s EXCEPT !.writes = Append(@, data),
            !.deadWrites = IF s.pty = "exited" THEN @ + 1 ELSE @]

\* pty.kill(): the signal is sent; a process already gone is left alone
PtyKill(s) ==
  [s EXCEPT !.kills = @ + 1,
            !.pty = IF @ = "running" THEN "killed" ELSE @]

OpenHook(s) ==
  Send([s EXCEPT !.reg = "idle", !.readyState = 1], ReadyFrame)

\* the ping branch of the message hook
PingBranchFixedId(s, payload) == Send(s, PongFrame(JStr("pong")))

PingBranch(s, payload) == Send(s, PongFrame(payload.id))

\* the init branch: a no-op when ready; spawn() may throw, and then the
\* exception leaves the hook before sessions.set
InitBranchRespawns(s, payload, outcome) ==
  IF outcome = "throw" THEN [s EXCEPT !.spawnFailed = @ + 1]
  ELSE [SpawnPty(s, payload) EXCEPT !.reg = "ready"]

InitBranch(s, payload, outcome) ==
  IF s.reg = "ready" THEN s
  ELSE IF outcome = "throw" THEN [s EXCEPT !.spawnFailed = @ + 1]
  ELSE [SpawnPty(s, payload) EXCEPT !.reg = "ready"]

\* the resize branch
ResizeBranch(s, payload) ==
  IF s.reg # "ready" THEN s
  ELSE ResizePty(s, payload.cols, payload.rows)

\* a frame that is not a control message
RawInputUngated(s, data) ==
  PtyWrite([s EXCEPT !.userInputPending = IF s.impl = "node" THEN TRUE ELSE @], data)

RawInputNoFlag(s, data) ==
  IF s.reg # "ready" THEN s ELSE PtyWrite(s, data)

RawInput(s, data) ==
  IF s.reg # "ready" THEN s
  ELSE PtyWrite([s EXCEPT !.userInputPending = IF s.impl = "node" THEN TRUE ELSE @],
                data)

MessageHook(s, f, outcome) ==
  IF s.reg \notin {"idle", "ready"} THEN s
  ELSE LET payload == ParseControlMessage(f)
       IN IF payload # Undefined
          THEN CASE payload.type.s = "ping" -> PingBranch(s, payload)
                 [] payload.type.s = "init" -> InitBranch(s, payload, outcome)
                 [] payload.type.s = "resize" -> ResizeBranch(s, payload)
                 [] OTHER -> s
          ELSE RawInput(s, f.text)

\* the body shared by the close and the error hook
TeardownKeepsEntry(s) ==
  IF s.reg = "ready"
  THEN PtyKill(IF s.impl = "node" /\ s.flushTimer # 0
               THEN ClearTimeout(s, s.flushTimer)
               ELSE s)
  ELSE s

Teardown(s) ==
  LET s1 == IF s.reg = "ready"
            THEN PtyKill(IF s.impl = "node" /\ s.flushTimer # 0
                         THEN ClearTimeout(s, s.flushTimer)
                         ELSE s)
            ELSE s
  IN [s1 EXCEPT !.reg = "deleted"]

CloseHook(s) == Teardown(s)

ErrorHook(s) == Teardown(s)

(***************************************************************************)
(* The specification of the bridge: one connection, its client, its        *)
(* process and the event loop's timers.                                    *)
(***************************************************************************)
\* The frames of out that carry process output, concatenated.
RECURSIVE Delivered(_)
Delivered(frames) ==
  IF frames = <<>> THEN <<>>
  ELSE (IF Head(frames).type = "data" THEN Head(frames).data ELSE <<>>)
       \o Delivered(Tail(frames))

\* Bookkeeping of a step: the event that ran, and whether input is still
\* waiting for its first chunk or flush.
Track(old, new, event) ==
  [new EXCEPT
     !.last = event,
     !.inputSinceFlush =
        IF Len(new.writes) > Len(old.writes) THEN TRUE
        ELSE IF event.kind = "data" \/ Delivered(new.out) # Delivered(old.out)
             THEN FALSE
             ELSE @]

Pending == [t |-> "pending"]

NoProbe == [frame |-> Frame("", SyntaxError), result |-> Pending]

Init ==
  /\ sess \in {NewSession(impl) : impl \in Impls}
  /\ probe = NoProbe
  /\ shell = NewShell
  /\ conns = NewConns("node")

Open ==
  /\ sess.reg = "none"
  /\ sess' = Track(sess, OpenHook(sess), Event("open", "none", sess.reg))
  /\ UNCHANGED notBridge

Message ==
  /\ sess.reg # "none"
  /\ sess.readyState \in {1, 2}
  /\ sess.nMsgs < MaxMsgs
  /\ \E f \in Inbox, outcome \in SpawnOutcomes :
       sess' = Track(sess, [MessageHook(sess, f, outcome) EXCEPT !.nMsgs = @ + 1],
                     Event("message", FrameClass(f), sess.reg))
  /\ UNCHANGED notBridge

\* the client goes away, or the network drops the socket
SocketDrop ==
  /\ sess.readyState = 1
  /\ sess' = Track(sess, [sess EXCEPT !.readyState = 3, !.closeCode = 1001],
                   Event("drop", "none", sess.reg))
  /\ UNCHANGED notBridge

Close ==
  /\ sess.readyState \in {2, 3}
  /\ ~sess.closeRan
  /\ sess' = Track(sess, [CloseHook(sess) EXCEPT !.readyState = 3, !.closeRan = TRUE],
                   Event("close", "none", sess.reg))
  /\ UNCHANGED notBridge

Error ==
  /\ sess.reg # "none"
  /\ ~sess.closeRan
  /\ sess.nErrors < 1
  /\ sess' = Track(sess, [ErrorHook(sess) EXCEPT !.nErrors = @ + 1],
                   Event("error", "none", sess.reg))
  /\ UNCHANGED notBridge

ProcData ==
  /\ sess.pty \in {"running", "killed"}
  /\ sess.nData < MaxChunks
  /\ \E data \in Chunks :
       sess' = Track(sess,
                     [OnData(sess, data) EXCEPT !.produced = StrCat(@, data),
                                                !.nData = @ + 1],
                     Event("data",
                           IF sess.inputSinceFlush THEN "afterInput" ELSE "unsolicited",
                           sess.reg))
  /\ UNCHANGED notBridge

ProcExit ==
  /\ sess.pty \in {"running", "killed"}
  /\ sess' = Track(sess, [OnExit(sess) EXCEPT !.pty = "exited"],
                   Event("exit", IF sess.readyState = 1 THEN "open" ELSE "closed",
                         sess.reg))
  /\ UNCHANGED notBridge

TimerFire ==
  /\ \E id \in sess.timers :
       sess' = Track(sess, FlushOutput([sess EXCEPT !.timers = @ \ {id}]),
                     Event("timer", "none", sess.reg))
  /\ UNCHANGED notBridge

Next ==
  \/ Open
  \/ Message
  \/ SocketDrop
  \/ Close
  \/ Error
  \/ ProcData
  \/ ProcExit
  \/ TimerFire

Spec == Init /\ [][Next]_vars

\* The event loop runs a timer that is due; nothing obliges the client or
\* the process to act.
FairSpec == Init /\ [][Next]_vars /\ WF_vars(TimerFire)

(***************************************************************************)
(* The specification of a server with two connections.  Every hook is      *)
(* given its peer and works on sessions.get(peer); every callback works on *)
(* the session of the spawnPty call that registered it.                    *)
(***************************************************************************)
\* the record of peer p replaced by what its hook or callback left
DispatchShared(c, p, new) ==
  [c EXCEPT !.sessions = [q \in Peers |-> new], !.actor = p]

Dispatch(c, p, new) ==
  [c EXCEPT !.sessions[p] = new, !.actor = p]

\* spawn() gives the session that became ready a process of its own
AdoptPty(c, p, before) ==
  IF c.sessions[p].spawned > before.spawned
  THEN [c EXCEPT !.spawns = @ + 1, !.ptys[p] = c.spawns + 1]
  ELSE c

PairMsgs == conns.sessions[1].nMsgs + conns.sessions[2].nMsgs

PairChunks == conns.sessions[1].nData + conns.sessions[2].nData

\* what the clients send and the processes write in this specification
PairInbox == {RawFrame, PingFrame, InitFrame, ResizeFrame}

PairOutput == {"a"}

PairInit ==
  /\ sess = NewSession("node")
  /\ probe = NoProbe
  /\ shell = NewShell
  /\ conns \in {NewConns(impl) : impl \in Impls}

PairOpen ==
  /\ \E p \in Peers :
       LET s == conns.sessions[p]
       IN /\ s.reg = "none"
          /\ conns' = Dispatch(conns, p,
                               Track(s, OpenHook(s), Event("open", "none", s.reg)))
  /\ UNCHANGED notConns

PairMessage ==
  /\ PairMsgs < MaxPairMsgs
  /\ \E p \in Peers, f \in PairInbox, outcome \in SpawnOutcomes :
       LET s == conns.sessions[p]
       IN /\ s.reg # "none"
          /\ s.readyState \in {1, 2}
          /\ conns' = AdoptPty(
                        Dispatch(conns, p,
                                 Track(s, [MessageHook(s, f, outcome)
                                             EXCEPT !.nMsgs = @ + 1],
                                       Event("message", FrameClass(f), s.reg))),
                        p, s)
  /\ UNCHANGED notConns

PairDrop ==
  /\ \E p \in Peers :
       LET s == conns.sessions[p]
       IN /\ s.readyState = 1
          /\ conns' = Dispatch(conns, p,
                               Track(s, [s EXCEPT !.readyState = 3, !.closeCode = 1001],
                                     Event("drop", "none", s.reg)))
  /\ UNCHANGED notConns

PairClose ==
  /\ \E p \in Peers :
       LET s == conns.sessions[p]
       IN /\ s.readyState \in {2, 3}
          /\ ~s.closeRan
          /\ conns' = Dispatch(conns, p,
                               Track(s, [CloseHook(s) EXCEPT !.readyState = 3,
                                                             !.closeRan = TRUE],
                                     Event("close", "none", s.reg)))
  /\ UNCHANGED notConns

PairError ==
  /\ \E p \in Peers :
       LET s == conns.sessions[p]
       IN /\ s.reg # "none"
          /\ ~s.closeRan
          /\ s.nErrors < 1
          /\ conns' = Dispatch(conns, p,
                               Track(s, [ErrorHook(s) EXCEPT !.nErrors = @ + 1],
                                     Event("error", "none", s.reg)))
  /\ UNCHANGED notConns

PairData ==
  /\ PairChunks < MaxPairChunks
  /\ \E p \in Peers, data \in PairOutput :
       LET s == conns.sessions[p]
       IN /\ s.pty \in {"running", "killed"}
          /\ conns' = Dispatch(conns, p,
                               Track(s, [OnData(s, data)
                                           EXCEPT !.produced = StrCat(@, data),
                                                  !.nData = @ + 1],
                                     Event("data",
                                           IF s.inputSinceFlush THEN "afterInput"
                                           ELSE "unsolicited",
                                           s.reg)))
  /\ UNCHANGED notConns

PairExit ==
  /\ \E p \in Peers :
       LET s == conns.sessions[p]
       IN /\ s.pty \in {"running", "killed"}
          /\ conns' = Dispatch(conns, p,
                               Track(s, [OnExit(s) EXCEPT !.pty = "exited"],
                                     Event("exit",
                                           IF s.readyState = 1 THEN "open" ELSE "closed",
                                           s.reg)))
  /\ UNCHANGED notConns

PairTimer ==
  /\ \E p \in Peers :
       LET s == conns.sessions[p]
       IN \E id \in s.timers :
            conns' = Dispatch(conns, p,
                              Track(s, FlushOutput([s EXCEPT !.timers = @ \ {id}]),
                                    Event("timer", "none", s.reg)))
  /\ UNCHANGED notConns

PairNext ==
  \/ PairOpen
  \/ PairMessage
  \/ PairDrop
  \/ PairClose
  \/ PairError
  \/ PairData
  \/ PairExit
  \/ PairTimer

PairSpec == PairInit /\ [][PairNext]_vars

(***************************************************************************)
(* The specification of parseControlMessage: a frame is drawn, the         *)
(* function is applied to it, and another frame is drawn.                  *)
(***************************************************************************)
TypeValues ==
  {Undefined, JNull, JNum(1), JBool(TRUE), JArray,
   JStr("init"), JStr("resize"), JStr("ping"), JStr("exit"), JStr("Init"), JStr("")}

JsonValues ==
  {JNull, JNum(0), JNum(42), JStr(""), JStr("init"), JStr("ping"),
   JBool(FALSE), JBool(TRUE), JArray}
  \cup {JObj(type, cols, rows, id) :
          type \in TypeValues, cols \in {Undefined, JNum(80)},
          rows \in {Undefined, JNum(0)}, id \in {Undefined, JStr("p1")}}

\* "{" stands for every text JSON.parse rejects: a lone brace, keystrokes
ProbeFrames ==
  {Frame("{", SyntaxError)} \cup {Frame("json", v) : v \in JsonValues}

ParseInit ==
  /\ sess = NewSession("node")
  /\ probe \in {[frame |-> f, result |-> Pending] : f \in ProbeFrames}
  /\ shell = NewShell
  /\ conns = NewConns("node")

Classify ==
  /\ probe.result = Pending
  /\ probe' = [probe EXCEPT !.result = ParseControlMessage(probe.frame)]
  /\ UNCHANGED notProbe

NextFrame ==
  /\ probe.result # Pending
  /\ \E f \in ProbeFrames : probe' = [frame |-> f, result |-> Pending]
  /\ UNCHANGED notProbe

ParseNext == Classify \/ NextFrame

ParseSpec == ParseInit /\ [][ParseNext]_vars

(***************************************************************************)
(* The pipe-fallback bridge (unnamed/part_017, Bun.serve and Bun.spawn of  *)
(* `script`).  Bytes are one-character strings, byte strings are           *)
(* sequences of them.                                                      *)
(***************************************************************************)
PIPE_DEFAULT_COLS == 120
PIPE_DEFAULT_ROWS == 32

CR == "\r"
LF == "\n"

\* what \s and String.prototype.trim take as white space, among the bytes used
WhiteSpace == {" ", "\t", CR, LF}

DigitChars == <<"0", "1", "2", "3", "4", "5", "6", "7", "8", "9">>

IsDigit(c) == \E i \in 1..10 : DigitChars[i] = c

\* the decimal digits of a natural number
RECURSIVE Decimal(_)
Decimal(n) ==
  IF n < 10 THEN <<DigitChars[n + 1]>>
  ELSE Decimal(n \div 10) \o <<DigitChars[(n % 10) + 1]>>

\* `${v}` of a template literal
TemplateText(v) ==
  CASE v.t = "number" -> IF v.n < 0 THEN <<"-">> \o Decimal(0 - v.n) ELSE Decimal(v.n)
    [] v.t = "null" -> <<"n", "u", "l", "l">>
    [] OTHER -> <<"u", "n", "d", "e", "f", "i", "n", "e", "d">>

SttyCols == <<"s", "t", "t", "y", " ", "c", "o", "l", "s", " ">>
RowsWord == <<" ", "r", "o", "w", "s", " ">>
BashDash == <<"b", "a", "s", "h", "-">>

\* `stty cols ${cols} rows ${rows}`
CommandText(cols, rows) ==
  SttyCols \o TemplateText(cols) \o RowsWord \o TemplateText(rows)

\* text.startsWith(word, at), positions from 1
StartsAt(text, at, word) ==
  /\ at + Len(word) - 1 <= Len(text)
  /\ \A k \in 1..Len(word) : text[at + k - 1] = word[k]

\* text.includes(word)
Includes(text, word) == \E at \in 1..(Len(text) + 1) : StartsAt(text, at, word)

(***************************************************************************)
(* queueSuppression and stripSuppressed.  The queue is a sequence of       *)
(* [bytes, index]; stripSuppressed returns the bytes kept and the queue    *)
(* it leaves.                                                              *)
(***************************************************************************)
QueueSuppression(suppressions, text) ==
  Append(suppressions, [bytes |-> text, index |-> 0])

RECURSIVE StripLoop(_, _, _, _)
StripLoop(suppressions, data, idx, output) ==
  IF idx > Len(data) THEN [queue |-> suppressions, bytes |-> output]
  ELSE IF suppressions = <<>>
       THEN StripLoop(suppressions, data, idx + 1, Append(output, data[idx]))
       ELSE LET current == Head(suppressions)
            IN IF current.index < Len(current.bytes)
                  /\ data[idx] = current.bytes[current.index + 1]
               THEN IF current.index + 1 = Len(current.bytes)
                    THEN StripLoop(Tail(suppressions), data, idx + 1, output)
                    ELSE StripLoop(<<[current EXCEPT !.index = @ + 1]>>
                                     \o Tail(suppressions),
                                   data, idx + 1, output)
               ELSE IF current.index > 0
                    THEN StripLoop(Tail(suppressions), data, idx,
                                   output \o SubSeq(current.bytes, 1, current.index))
                    ELSE StripLoop(Tail(suppressions), data, idx, output)

\* the loop without the re-emission of a failed partial match
RECURSIVE StripLoopNoReemit(_, _, _, _)
StripLoopNoReemit(suppressions, data, idx, output) ==
  IF idx > Len(data) THEN [queue |-> suppressions, bytes |-> output]
  ELSE IF suppressions = <<>>
       THEN StripLoopNoReemit(suppressions, data, idx + 1, Append(output, data[idx]))
       ELSE LET current == Head(suppressions)
            IN IF current.index < Len(current.bytes)
                  /\ data[idx] = current.bytes[current.index + 1]
               THEN IF current.index + 1 = Len(current.bytes)
                    THEN StripLoopNoReemit(Tail(suppressions), data, idx + 1, output)
                    ELSE StripLoopNoReemit(<<[current EXCEPT !.index = @ + 1]>>
                                             \o Tail(suppressions),
                                           data, idx + 1, output)
               ELSE StripLoopNoReemit(Tail(suppressions), data, idx, output)

StripSuppressedNoReemit(suppressions, data) ==
  IF suppressions = <<>> \/ data = <<>>
  THEN [queue |-> suppressions, bytes |-> data]
  ELSE StripLoopNoReemit(suppressions, data, 1, <<>>)

StripSuppressed(suppressions, data) ==
  IF suppressions = <<>> \/ data = <<>>
  THEN [queue |-> suppressions, bytes |-> data]
  ELSE StripLoop(suppressions, data, 1, <<>>)

\* -------------------------------------------------------------------------
\* removeResizeEcho.  The regular expression
\*   (?:\r?\n)?(?:[^\r\n]*?#\s*)?stty cols \d+ rows \d+(?:\r?\n)?
\* is matched as the engine matches it: leftmost, the optional groups tried
\* first, the lazy run extended one byte at a time.  Each ...End operator
\* gives the position after its match, or 0 for no match.
\* -------------------------------------------------------------------------
SttyColsWord == <<"s", "t", "t", "y", " ", "c", "o", "l", "s">>

\* \r?\n
NewlineEnd(text, at) ==
  IF StartsAt(text, at, <<CR, LF>>) THEN at + 2
  ELSE IF StartsAt(text, at, <<LF>>) THEN at + 1
  ELSE 0

\* \d* : the position after the longest run of digits
RECURSIVE DigitsEnd(_, _)
DigitsEnd(text, at) ==
  IF at <= Len(text) /\ IsDigit(text[at]) THEN DigitsEnd(text, at + 1) ELSE at

\* \s*
RECURSIVE SpaceEnd(_, _)
SpaceEnd(text, at) ==
  IF at <= Len(text) /\ text[at] \in WhiteSpace THEN SpaceEnd(text, at + 1) ELSE at

\* stty cols \d+ rows \d+(?:\r?\n)?
SttyEnd(text, at) ==
  IF ~StartsAt(text, at, SttyCols) THEN 0
  ELSE LET d1 == at + Len(SttyCols)
           e1 == DigitsEnd(text, d1)
           d2 == e1 + Len(RowsWord)
           e2 == DigitsEnd(text, d2)
       IN IF e1 = d1 \/ ~StartsAt(text, e1, RowsWord) \/ e2 = d2 THEN 0
          ELSE IF NewlineEnd(text, e2) # 0 THEN NewlineEnd(text, e2)
          ELSE e2

\* [^\r\n]*?#\s* followed by the stty part, the lazy run now reaching k
RECURSIVE PromptEnd(_, _)
PromptEnd(text, k) ==
  IF k > Len(text) THEN 0
  ELSE IF text[k] = "#" /\ SttyEnd(text, SpaceEnd(text, k + 1)) # 0
       THEN SttyEnd(text, SpaceEnd(text, k + 1))
       ELSE IF text[k] \in {CR, LF} THEN 0
       ELSE PromptEnd(text, k + 1)

\* (?:[^\r\n]*?#\s*)? and the stty part
RestEnd(text, at) ==
  IF PromptEnd(text, at) # 0 THEN PromptEnd(text, at) ELSE SttyEnd(text, at)

\* the whole expression at one position
EchoEnd(text, at) ==
  IF NewlineEnd(text, at) # 0 /\ RestEnd(text, NewlineEnd(text, at)) # 0
  THEN RestEnd(text, NewlineEnd(text, at))
  ELSE RestEnd(text, at)

\* text.replace(/.../g, '') from position pos on
RECURSIVE RemoveEchoes(_, _)
RemoveEchoes(text, pos) ==
  IF pos > Len(text) THEN <<>>
  ELSE IF EchoEnd(text, pos) # 0 THEN RemoveEchoes(text, EchoEnd(text, pos))
  ELSE <<text[pos]>> \o RemoveEchoes(text, pos + 1)

\* cleaned.split(/\r?\n/)
RECURSIVE SplitLines(_, _, _)
SplitLines(text, pos, line) ==
  IF pos > Len(text) THEN <<line>>
  ELSE IF NewlineEnd(text, pos) # 0
       THEN <<line>> \o SplitLines(text, NewlineEnd(text, pos), <<>>)
       ELSE SplitLines(text, pos + 1, Append(line, text[pos]))

\* line.trim()
RECURSIVE TrimStart(_)
TrimStart(line) ==
  IF line # <<>> /\ Head(line) \in WhiteSpace THEN TrimStart(Tail(line)) ELSE line

RECURSIVE TrimEnd(_)
TrimEnd(line) ==
  IF line # <<>> /\ line[Len(line)] \in WhiteSpace
  THEN TrimEnd(SubSeq(line, 1, Len(line) - 1))
  ELSE line

Trim(line) == TrimEnd(TrimStart(line))

\* /^bash-[^#]+#\s*$/.test(line)
PromptPattern(line) ==
  /\ StartsAt(line, 1, BashDash)
  /\ \E h \in (Len(BashDash) + 2)..Len(line) :
       /\ line[h] = "#"
       /\ \A k \in (Len(BashDash) + 1)..(h - 1) : line[k] # "#"
       /\ \A k \in (h + 1)..Len(line) : line[k] \in WhiteSpace

\* the loop over lines: blank lines collapse, a prompt line is dropped when
\* it comes first or follows another prompt line
RECURSIVE FilterLines(_, _)
FilterLines(lines, filtered) ==
  IF lines = <<>> THEN filtered
  ELSE LET line == Head(lines)
           trimmed == Trim(line)
           last == IF filtered = <<>> THEN <<>> ELSE filtered[Len(filtered)]
       IN IF trimmed = <<>>
          THEN IF filtered = <<>> \/ Trim(last) = <<>>
               THEN FilterLines(Tail(lines), filtered)
               ELSE FilterLines(Tail(lines), Append(filtered, <<>>))
          ELSE IF PromptPattern(trimmed)
                  /\ (filtered = <<>> \/ PromptPattern(Trim(last)))
               THEN FilterLines(Tail(lines), filtered)
               ELSE FilterLines(Tail(lines), Append(filtered, line))

\* filtered.join('\n')
RECURSIVE JoinLines(_)
JoinLines(lines) ==
  IF lines = <<>> THEN <<>>
  ELSE IF Len(lines) = 1 THEN Head(lines)
  ELSE Head(lines) \o <<LF>> \o JoinLines(Tail(lines))

\* the position after the run of \n starting at `at`
RECURSIVE LfRunEnd(_, _)
LfRunEnd(text, at) ==
  IF at <= Len(text) /\ text[at] = LF THEN LfRunEnd(text, at + 1) ELSE at

\* .replace(/\n{3,}/g, '\n\n')
RECURSIVE CollapseNewlines(_, _)
CollapseNewlines(text, pos) ==
  IF pos > Len(text) THEN <<>>
  ELSE IF LfRunEnd(text, pos) - pos >= 3
       THEN <<LF, LF>> \o CollapseNewlines(text, LfRunEnd(text, pos))
       ELSE <<text[pos]>> \o CollapseNewlines(text, pos + 1)

RemoveResizeEcho(data) ==
  IF data = <<>> THEN data
  ELSE IF ~Includes(data, SttyColsWord) THEN data
  ELSE LET cleaned == RemoveEchoes(data, 1)
       IN IF ~Includes(cleaned, BashDash) THEN cleaned
          ELSE CollapseNewlines(
                 JoinLines(FilterLines(SplitLines(cleaned, 1, <<>>), <<>>)), 1)

\* The hooks and callbacks of the pipe-fallback bridge, over the record shell.
\* ws.send: a frame reaches the client only through an open socket.
PipeSend(sh, frame) ==
  IF sh.readyState = 1 THEN [sh EXCEPT !.out = Append(@, frame)] ELSE sh

PipeExitFrame(exitCode) == [type |-> "process-exit", data |-> <<exitCode>>]

\* ws.close(code, reason)
PipeWsClose(sh, code) ==
  IF sh.readyState = 1 THEN [sh EXCEPT !.readyState = 2, !.closeCode = code] ELSE sh

\* the same function as in the node-pty bridges
PipeParseControlMessage(f) ==
  LET payload == JsonParse(f)
  IN IF payload = SyntaxError THEN Undefined
     ELSE IF Falsy(payload) \/ ~TypeofObject(payload) THEN Undefined
     ELSE IF TypeIs(payload, "init") THEN payload
     ELSE IF TypeIs(payload, "resize") THEN payload
     ELSE IF TypeIs(payload, "ping") THEN payload
     ELSE Undefined

\* sink.write(data); a failure is logged and nothing else
WriteInput(sh, data) == [sh EXCEPT !.stdin = Append(@, data)]

ApplyResize(sh, cols, rows) ==
  LET commandText == CommandText(cols, rows)
      s1 == WriteInput([sh EXCEPT !.cols = cols, !.rows = rows],
                       commandText \o <<CR>>)
  IN [s1 EXCEPT !.suppressions =
        QueueSuppression(QueueSuppression(QueueSuppression(@, commandText),
                                          <<CR>>),
                         <<LF>>)]

\* spawnShell with Bun.spawn succeeding: both pumps start, the callback of
\* subprocess.exited is registered, the first resize is applied.
SpawnShell(sh, options) ==
  LET cols == IF PositiveNumber(options.cols) THEN options.cols
              ELSE JNum(PIPE_DEFAULT_COLS)
      rows == IF PositiveNumber(options.rows) THEN options.rows
              ELSE JNum(PIPE_DEFAULT_ROWS)
  IN ApplyResize([sh EXCEPT !.process = "running",
                            !.pump = [st \in Streams |-> "reading"],
                            !.suppressions = <<>>],
                 cols, rows)

PipeDataFrame(bytes) == [type |-> "data", data |-> bytes]

\* one turn of the loop of forwardStream: reader.read() gave value
ForwardChunk(sh, st, value) ==
  IF value = <<>> THEN [sh EXCEPT !.forwarded[st] = Append(@, value)]
  ELSE LET stripped == StripSuppressed(sh.suppressions, value)
           filtered == RemoveResizeEcho(stripped.bytes)
           s1 == [sh EXCEPT !.suppressions = stripped.queue]
       IN IF filtered = <<>> THEN [s1 EXCEPT !.forwarded[st] = Append(@, value)]
          ELSE IF s1.readyState = 1
               THEN [PipeSend(s1, PipeDataFrame(filtered))
                       EXCEPT !.forwarded[st] = Append(@, value)]
               ELSE [s1 EXCEPT !.pump[st] = "done"]

\* reader.read() resolving: with the next chunk of the pipe, or with done
\* once the pipe is drained and its writer is gone
ForwardStream(sh, st) ==
  IF sh.pipe[st] # <<>>
  THEN ForwardChunk([sh EXCEPT !.pipe[st] = Tail(@)], st, Head(sh.pipe[st]))
  ELSE [sh EXCEPT !.pump[st] = "done"]

\* the callback of subprocess.exited
ExitedHandler(sh, exitCode) ==
  IF sh.readyState = 1
  THEN PipeWsClose(PipeSend(sh, PipeExitFrame(exitCode)), 1000)
  ELSE sh

\* session.close()
SessionClose(sh) ==
  [sh EXCEPT !.kills = @ + 1,
             !.process = IF @ = "running" THEN "killed" ELSE @,
             !.stdinEnded = TRUE]

PipeOpenHook(sh) ==
  PipeSend([sh EXCEPT !.status = "idle", !.readyState = 1], ReadyFrame)

\* the message hook; a message is a text frame or a binary one
TextMessage(f) == [kind |-> "text", frame |-> f, bytes |-> <<>>]
BinaryMessage(bytes) == [kind |-> "binary", frame |-> Frame("", SyntaxError), bytes |-> bytes]

PipeMessageHook(sh, message, outcome) ==
  IF message.kind = "text"
  THEN LET payload == PipeParseControlMessage(message.frame)
       IN IF payload = Undefined THEN sh
          ELSE CASE payload.type.s = "ping" -> PipeSend(sh, PongFrame(payload.id))
                 [] payload.type.s = "init" ->
                      IF sh.status = "ready" THEN sh
                      ELSE IF outcome = "throw" THEN [sh EXCEPT !.spawnFailed = @ + 1]
                      ELSE [SpawnShell(sh, payload) EXCEPT !.status = "ready"]
                 [] payload.type.s = "resize" ->
                      IF sh.status # "ready" THEN sh
                      ELSE ApplyResize(sh, payload.cols, payload.rows)
                 [] OTHER -> sh
  ELSE IF sh.status # "ready" THEN sh
  ELSE WriteInput(sh, message.bytes)

PipeCloseHook(sh) ==
  IF sh.status = "ready" THEN SessionClose(sh) ELSE sh

(***************************************************************************)
(* The specification of the pipe-fallback bridge.                          *)
(***************************************************************************)
\* what the shell under `script` writes: an ordinary chunk, the echo of the
\* first resize command, a prompt alone, and the echo read in two parts,
\* the first part in one chunk with the output before it
Keystrokes == <<"l", "s", CR>>

EchoChunk ==
  CommandText(JNum(PIPE_DEFAULT_COLS), JNum(PIPE_DEFAULT_ROWS)) \o <<CR, LF>>

PromptChunk == BashDash \o <<"5", "#", " ">>

EchoSplit == Len(SttyCols) + 1

EchoHead == SubSeq(EchoChunk, 1, EchoSplit)

EchoTail == SubSeq(EchoChunk, EchoSplit + 1, Len(EchoChunk))

PipeChunks ==
  {<<"x">>, EchoChunk, PromptChunk, EchoHead, <<"x">> \o EchoHead, EchoTail}

PipeInbox ==
  {TextMessage(f) : f \in Inbox} \cup {BinaryMessage(Keystrokes)}

ExitCodes == {0, 1}

PipeInit ==
  /\ sess = NewSession("node")
  /\ probe = NoProbe
  /\ shell = NewShell
  /\ conns = NewConns("node")

PipeOpen ==
  /\ shell.status = "none"
  /\ shell' = PipeOpenHook(shell)
  /\ UNCHANGED notPipe

PipeMessage ==
  /\ shell.status # "none"
  /\ shell.readyState \in {1, 2}
  /\ shell.nMsgs < MaxPipeMsgs
  /\ \E message \in PipeInbox, outcome \in SpawnOutcomes :
       shell' = [PipeMessageHook(shell, message, outcome) EXCEPT !.nMsgs = @ + 1]
  /\ UNCHANGED notPipe

\* the client goes away, or the network drops the socket
PipeDrop ==
  /\ shell.readyState = 1
  /\ shell' = [shell EXCEPT !.readyState = 3, !.closeCode = 1001]
  /\ UNCHANGED notPipe

PipeClose ==
  /\ shell.readyState \in {2, 3}
  /\ ~shell.closeRan
  /\ shell' = [PipeCloseHook(shell) EXCEPT !.readyState = 3, !.closeRan = TRUE]
  /\ UNCHANGED notPipe

\* the subprocess writes a chunk to one of its pipes
ShellEmit ==
  /\ shell.process \in {"running", "killed"}
  /\ shell.nEmits < MaxEmits
  /\ \E st \in Streams, chunk \in PipeChunks :
       shell' = [shell EXCEPT !.pipe[st] = Append(@, chunk),
                              !.produced[st] = Append(@, chunk),
                              !.nEmits = @ + 1]
  /\ UNCHANGED notPipe

\* the subprocess ends; what it wrote stays in the pipes until it is read
ShellDie ==
  /\ shell.process \in {"running", "killed"}
  /\ \E exitCode \in ExitCodes :
       shell' = [shell EXCEPT !.process = "exited", !.exitCode = JNum(exitCode)]
  /\ UNCHANGED notPipe

\* the promise subprocess.exited resolves and its callback runs
Exited ==
  /\ shell.process = "exited"
  /\ ~shell.exitedRan
  /\ shell' = [ExitedHandler(shell, shell.exitCode) EXCEPT !.exitedRan = TRUE]
  /\ UNCHANGED notPipe

\* a pending reader.read() of one pump resolves
PumpRead ==
  /\ \E st \in Streams :
       /\ shell.pump[st] = "reading"
       /\ shell.pipe[st] # <<>> \/ shell.process = "exited"
       /\ shell' = ForwardStream(shell, st)
  /\ UNCHANGED notPipe

PipeNext ==
  \/ PipeOpen
  \/ PipeMessage
  \/ PipeDrop
  \/ PipeClose
  \/ ShellEmit
  \/ ShellDie
  \/ Exited
  \/ PumpRead

PipeSpec == PipeInit /\ [][PipeNext]_vars

(***************************************************************************)
(* The port the bridge listens on: Number(process.env.WS_PORT || 8080).    *)
(* The value of the variable is undefined or a string of bytes.            *)
(***************************************************************************)
NaN == [t |-> "number", nan |-> TRUE]

\* the value of a string of decimal digits
RECURSIVE DecimalValue(_)
DecimalValue(digits) ==
  IF digits = <<>> THEN 0
  ELSE 10 * DecimalValue(SubSeq(digits, 1, Len(digits) - 1))
       + (CHOOSE d \in 0..9 : DigitChars[d + 1] = digits[Len(digits)])

\* Number(str) for strings of digits, letters and white space: white space
\* around is dropped, the empty string is 0, digits are their value and
\* everything else is NaN
StringToNumber(str) ==
  LET trimmed == Trim(str)
  IN IF trimmed = <<>> THEN JNum(0)
     ELSE IF \A i \in 1..Len(trimmed) : IsDigit(trimmed[i])
          THEN JNum(DecimalValue(trimmed))
          ELSE NaN

\* v || 8080 and Number(...)
Port(env) ==
  IF env = Undefined \/ env.s = <<>>
  THEN JNum(DEFAULT_PORT)
  ELSE StringToNumber(env.s)

PortAlphabet == {"0", "7", "a", " "}

RECURSIVE StringsUpTo(_)
StringsUpTo(n) ==
  IF n = 0 THEN {<<>>}
  ELSE LET shorter == StringsUpTo(n - 1)
       IN shorter \cup {Append(str, c) : str \in shorter, c \in PortAlphabet}

EnvValues == {Undefined} \cup {JStr(str) : str \in StringsUpTo(MaxEnvLen)}

PortInit ==
  /\ sess = NewSession("node")
  /\ probe \in {[env |-> e, port |-> Pending] : e \in EnvValues}
  /\ shell = NewShell
  /\ conns = NewConns("node")

\* the module is loaded and the server told to listen
Listen ==
  /\ probe.port = Pending
  /\ probe' = [probe EXCEPT !.port = Port(probe.env)]
  /\ UNCHANGED notProbe

PortNext == Listen

PortSpec == PortInit /\ [][PortNext]_vars

(***************************************************************************)
(* The paste listener of the terminal (lib/terminal/manager.ts): the text  *)
(* of the clipboard is a string of characters, ESC standing for \x1b.      *)
(***************************************************************************)
ESC == "ESC"

PasteStart == <<ESC, "[", "2", "0", "0", "~">>
PasteEnd == <<ESC, "[", "2", "0", "1", "~">>

\* /\x1b\[20[01]~/ at one position
MarkerAt(text, at) == StartsAt(text, at, PasteStart) \/ StartsAt(text, at, PasteEnd)

\* text.replace(/\x1b\[20[01]~/g, ''): one pass from left to right, the
\* search going on after each match
RECURSIVE StripMarkers(_, _)
StripMarkers(text, pos) ==
  IF pos > Len(text) THEN <<>>
  ELSE IF MarkerAt(text, pos) THEN StripMarkers(text, pos + Len(PasteStart))
  ELSE <<text[pos]>> \o StripMarkers(text, pos + 1)

NotForwarded == [t |-> "nothing"]

Forwarded(str) == [t |-> "onPaste", data |-> str]

\* the listener: nothing for an empty clipboard, else onPaste
PasteListener(text) ==
  IF text = <<>> THEN NotForwarded
  ELSE Forwarded(PasteStart \o StripMarkers(text, 1) \o PasteEnd)

\* clipboard texts: up to MaxFragments of these pieces, one after another
PasteFragments ==
  {<<"x">>, <<ESC, "[", "2", "0">>, <<"0", "~">>, <<"1", "~">>, PasteStart, PasteEnd}

RECURSIVE TextsUpTo(_)
TextsUpTo(n) ==
  IF n = 0 THEN {<<>>}
  ELSE LET shorter == TextsUpTo(n - 1)
       IN shorter \cup {str \o piece : str \in shorter, piece \in PasteFragments}

PasteInit ==
  /\ sess = NewSession("node")
  /\ probe \in {[text |-> text, forwarded |-> Pending] : text \in TextsUpTo(MaxFragments)}
  /\ shell = NewShell
  /\ conns = NewConns("node")

Paste ==
  /\ probe.forwarded = Pending
  /\ probe' = [probe EXCEPT !.forwarded = PasteListener(probe.text)]
  /\ UNCHANGED notProbe

PasteNext == Paste

PasteSpec == PasteInit /\ [][PasteNext]_vars

(***************************************************************************)
(* Helpers of the properties.                                              *)
(***************************************************************************)
IsPrefix(p, q) == Len(p) <= Len(q) /\ SubSeq(q, 1, Len(p)) = p

\* The step is the message hook handling a frame of one of these classes.
MessageStep(classes) ==
  /\ sess'.nMsgs = sess.nMsgs + 1
  /\ sess'.last.kind = "message"
  /\ sess'.last.class \in classes

\* What a hook that drops its frame leaves behind: only the bookkeeping moves.
Dropped ==
  sess' = [sess EXCEPT !.nMsgs = @ + 1, !.last = sess'.last]

ExitFrameAt(i) == sess.out[i].type = "process-exit"

(***************************************************************************)
(* C1: while a session is Idle, a raw input frame or a resize message      *)
(* given to the message hook is dropped: nothing is spawned, written or    *)
(* resized, the session stays Idle and the socket stays as it was (open).  *)
(***************************************************************************)
C1_IdleDropsInputAndResize ==
  [][(sess.reg = "idle" /\ MessageStep({"raw", "resize"}))
       => (Dropped /\ sess'.reg = "idle" /\ sess'.pty = "none"
           /\ sess'.readyState = sess.readyState)]_vars

C1_Witness ==
  /\ sess.reg = "idle"
  /\ sess.last = Event("message", "raw", "idle")
  /\ sess.readyState = 1
  /\ sess.nMsgs = 2

(***************************************************************************)
(* C2: at most one process is ever spawned; the entry becomes ready only   *)
(* in an init step that spawns, never goes back to idle, and an init       *)
(* received while ready changes nothing (process, cols and rows included). *)
(***************************************************************************)
C2_SingleSpawn ==
  [][/\ sess'.spawned <= 1
     /\ (sess.reg # "ready" /\ sess'.reg = "ready")
           => (MessageStep({"init"}) /\ sess.reg = "idle"
               /\ sess.spawned = 0 /\ sess'.spawned = 1)
     /\ (sess.reg \in {"ready", "deleted"}) => (sess'.reg \in {"ready", "deleted"})
     /\ (sess.reg = "ready" /\ MessageStep({"init"})) => Dropped]_vars

C2_Witness ==
  /\ sess.reg = "ready"
  /\ sess.last = Event("message", "init", "ready")
  /\ sess.spawned = 1
  /\ sess.spawnFailed = 0
  /\ sess.cols = JNum(DEFAULT_COLS)

(***************************************************************************)
(* C3: in the buffered bridge the frames sent to the client, concatenated, *)
(* are always a prefix of what the process emitted, and as long as the     *)
(* client has not dropped the socket, frames sent followed by the buffer   *)
(* are exactly c1 ++ ... ++ cn: nothing reordered, duplicated or lost.     *)
(***************************************************************************)
C3_OrderPreserved ==
  sess.impl = "node" =>
    /\ IsPrefix(Delivered(sess.out), sess.produced)
    /\ sess.closeCode # 1001
         => Delivered(sess.out) \o sess.outputBuffer = sess.produced

C3_Witness ==
  /\ sess.impl = "node"
  /\ sess.closeCode = 0
  /\ sess.writes # <<>>
  /\ sess.produced = <<"a", "M", "a">>
  /\ \E i \in 1..Len(sess.out) : Len(sess.out[i].data) = 2
  /\ sess.outputBuffer = <<"a">>

(***************************************************************************)
(* C4: a process exit event met with an open socket sends exactly one      *)
(* process-exit frame and closes the socket with code 1000 in that step;   *)
(* there is never more than one such frame, the socket is never closed     *)
(* with 1000 without it, and no output frame follows it.                   *)
(***************************************************************************)
C4_Post(s) ==
  /\ Cardinality({i \in 1..Len(s.out) : s.out[i].type = "process-exit"}) <= 1
  /\ \A i \in 1..Len(s.out) :
       s.out[i].type = "process-exit"
         => /\ s.closeCode = 1000
            /\ s.pty = "exited"
            /\ \A j \in (i + 1)..Len(s.out) : s.out[j].type # "data"
  /\ s.closeCode = 1000 => \E i \in 1..Len(s.out) : s.out[i].type = "process-exit"

C4_ExitFraming ==
  [][/\ C4_Post(sess')
     /\ (sess.pty # "exited" /\ sess'.pty = "exited" /\ sess.readyState = 1)
          => /\ sess'.out[Len(sess'.out)] = ExitFrame
             /\ Delivered(sess'.out) = Delivered(sess.out) \o sess.outputBuffer
             /\ sess'.readyState = 2
             /\ sess'.closeCode = 1000]_vars

C4_Witness ==
  /\ sess.pty = "exited"
  /\ sess.closeCode = 1000
  /\ sess.closeRan
  /\ Len(sess.out) >= 3
  /\ sess.out[Len(sess.out)] = ExitFrame
  /\ sess.out[Len(sess.out) - 1].type = "data"

(***************************************************************************)
(* C5 (pipe-fallback bridge): once the process-exit frame has been sent,   *)
(* every chunk the process wrote to stdout or stderr before it exited has  *)
(* been read and forwarded by its pump: nothing the process produced is    *)
(* still waiting in a pipe behind the exit frame.  (In the node-pty bridge *)
(* the same order is the one of C3 and C4: onExit flushes, then frames.)   *)
(***************************************************************************)
PipeExitSent ==
  \E i \in 1..Len(shell.out) : shell.out[i].type = "process-exit"

C5_ExitAfterAllOutput ==
  PipeExitSent => \A st \in Streams : shell.forwarded[st] = shell.produced[st]

(***************************************************************************)
(* C6: outputBuffer never holds more than BUFFER_MAX_SIZE characters when  *)
(* a callback returns: a chunk that takes it over the ceiling is flushed   *)
(* in the onData call that appended it.                                    *)
(***************************************************************************)
C6_BufferBounded == StrLen(sess.outputBuffer) <= BUFFER_MAX_SIZE

C6_Witness ==
  /\ sess.impl = "node"
  /\ sess.writes = <<>>
  /\ sess.readyState = 1
  /\ \E i \in 1..Len(sess.out) :
       sess.out[i].type = "data" /\ StrLen(sess.out[i].data) > BUFFER_MAX_SIZE
  /\ StrLen(sess.outputBuffer) = BUFFER_MAX_SIZE

(***************************************************************************)
(* C7: when input was written to the process and no chunk or flush has     *)
(* followed, the next chunk the process emits leaves onData with the       *)
(* buffer empty and no timer armed for it; on an open socket everything    *)
(* emitted so far has then been sent.                                      *)
(***************************************************************************)
C7_InputPriorityFlush ==
  [][(sess.impl = "node" /\ sess.inputSinceFlush
        /\ sess'.nData = sess.nData + 1)
       => /\ sess'.outputBuffer = <<>>
          /\ sess'.timers \subseteq sess.timers
          /\ sess.readyState = 1 => Delivered(sess'.out) = sess'.produced]_vars

C7_Witness ==
  /\ sess.impl = "node"
  /\ sess.last = Event("data", "afterInput", "ready")
  /\ sess.readyState = 1
  /\ Len(sess.out) >= 2
  /\ sess.out[Len(sess.out)] = DataFrame(<<"a", "a">>)
  /\ sess.outputBuffer = <<>>
  /\ sess.timers = {}

(***************************************************************************)
(* C9: a close or error hook that finds the session ready kills the        *)
(* process and removes the registry entry in that step; once the entry is  *)
(* gone no message spawns, writes to or resizes a process, and after the   *)
(* close hook no process is left running.                                  *)
(***************************************************************************)
C9_TeardownIsSynchronous ==
  [][/\ (sess.reg = "ready" /\ sess'.last.kind \in {"close", "error"}
           /\ (sess'.closeRan # sess.closeRan \/ sess'.nErrors # sess.nErrors))
          => /\ sess'.reg = "deleted"
             /\ sess'.kills = sess.kills + 1
             /\ sess'.pty \in {"killed", "exited"}
     /\ sess.reg = "deleted"
          => /\ sess'.reg = "deleted"
             /\ sess'.spawned = sess.spawned
             /\ sess'.writes = sess.writes
             /\ sess'.resizes = sess.resizes
             /\ sess'.cols = sess.cols /\ sess'.rows = sess.rows
     /\ sess'.closeRan => (sess'.reg = "deleted" /\ sess'.pty # "running")]_vars

C9_Witness ==
  /\ sess.reg = "deleted"
  /\ sess.pty = "killed"
  /\ sess.kills = 1
  /\ sess.last = Event("message", "raw", "deleted")
  /\ sess.writes = <<>>
  /\ sess.readyState = 1

(***************************************************************************)
(* C8: output buffered on an open socket while the process is alive is     *)
(* eventually flushed by the flush timer when nothing else flushes it:     *)
(* it is never held indefinitely.                                          *)
(***************************************************************************)
C8_Held ==
  /\ sess.impl = "node"
  /\ sess.outputBuffer # <<>>
  /\ sess.readyState = 1
  /\ sess.pty = "running"

C8_BufferedOutputIsFlushed == C8_Held ~> ~C8_Held

(***************************************************************************)
(* C10: parseControlMessage returns the parsed payload exactly when the    *)
(* frame is JSON, the value is a non-null object and its type is init,     *)
(* resize or ping; every other frame, malformed JSON included, gives       *)
(* undefined (raw input), and no frame gives an error.                     *)
(***************************************************************************)
C10_IsControl(f) ==
  /\ f.json # SyntaxError
  /\ f.json.t = "object"
  /\ f.json.type \in {JStr("init"), JStr("resize"), JStr("ping")}

C10_ControlIffTypedObject ==
  probe.result # Pending =>
    /\ probe.result # SyntaxError
    /\ C10_IsControl(probe.frame) => probe.result = probe.frame.json
    /\ ~C10_IsControl(probe.frame) => probe.result = Undefined

C10_Witness ==
  /\ probe.frame.json = JObj(JStr("exit"), JNum(80), Undefined, Undefined)
  /\ probe.result = Undefined

(***************************************************************************)
(* C11 (pipe-fallback bridge): while the connection is ready, a frame that *)
(* is not a control message, text or binary, is written to the stdin of    *)
(* the process, once and as it came.                                       *)
(***************************************************************************)
\* encoder.encode of the texts of Inbox that are not JSON
Utf8(text) == IF text = "ls" THEN <<"l", "s">> ELSE <<>>

MessageBytes(message) ==
  IF message.kind = "binary" THEN message.bytes ELSE Utf8(message.frame.text)

PipeIsControl(message) ==
  message.kind = "text" /\ PipeParseControlMessage(message.frame) # Undefined

PipeMessageStep(message, outcome) ==
  /\ shell.status # "none"
  /\ shell.nMsgs < MaxPipeMsgs
  /\ shell' = [PipeMessageHook(shell, message, outcome) EXCEPT !.nMsgs = @ + 1]

C11_RawFramesWritten ==
  [][\A message \in PipeInbox, outcome \in SpawnOutcomes :
       (PipeMessageStep(message, outcome)
          /\ shell.status = "ready" /\ ~PipeIsControl(message))
       => shell'.stdin = Append(shell.stdin, MessageBytes(message))]_vars

(***************************************************************************)
(* C12: a ping given to the message hook of an idle or ready session with  *)
(* its socket open appends exactly one pong frame carrying the id of the   *)
(* ping to what the client receives, and changes nothing else: the entry,  *)
(* the process, cols and rows, outputBuffer, the timer and the writes stay *)
(* as they were.                                                           *)
(***************************************************************************)
C12_PingAnswered ==
  [][(MessageStep({"ping"}) /\ sess.reg \in {"idle", "ready"} /\ sess.readyState = 1)
       => /\ sess'.out = Append(sess.out, PongFrame(PingFrame.json.id))
          /\ [sess' EXCEPT !.out = sess.out] =
               [sess EXCEPT !.nMsgs = @ + 1, !.last = sess'.last]]_vars

C12_Witness ==
  /\ sess.last = Event("message", "ping", "ready")
  /\ sess.reg = "ready"
  /\ sess.pty = "running"
  /\ sess.readyState = 1
  /\ sess.out = <<ReadyFrame, PongFrame(JStr("p1"))>>

(***************************************************************************)
(* C13: whenever the session is ready, the cols and rows it records are    *)
(* positive numbers, whatever init and resize payloads were received       *)
(* (cols or rows missing or zero included).                                *)
(***************************************************************************)
C13_GeometryPositive ==
  sess.reg = "ready" => PositiveNumber(sess.cols) /\ PositiveNumber(sess.rows)

C15_SendsGuarded == sess.closedSends = 0

(***************************************************************************)
(* C16: when spawn() fails in the init branch, the same step starts        *)
(* closing the connection with a code other than 1000, and the entry does  *)
(* not become ready.                                                       *)
(***************************************************************************)
C16_SpawnFailureCloses ==
  [][(sess'.spawnFailed > sess.spawnFailed)
       => /\ sess'.readyState \in {2, 3}
          /\ sess'.closeCode \notin {0, 1000}
          /\ sess'.reg # "ready"]_vars

(***************************************************************************)
(* C17: once a close or error hook has called pty.kill(), no later hook or *)
(* callback of the session calls it again, and none writes to or resizes   *)
(* the process: the second of two hooks (close after error, close after    *)
(* exit, close twice) finds no entry and touches nothing.                  *)
(***************************************************************************)
C17_TerminationOnce ==
  [][sess.kills >= 1
       => /\ sess'.kills = sess.kills
          /\ sess'.writes = sess.writes
          /\ sess'.resizes = sess.resizes]_vars

C17_Witness ==
  /\ sess.nErrors = 1
  /\ sess.closeRan
  /\ sess.kills = 1
  /\ sess.last = Event("close", "none", "deleted")
  /\ sess.pty = "killed"

(***************************************************************************)
(* C18: the port given to listen is the value of WS_PORT when that is a    *)
(* whole number from 1 to 65535, and 8080 when WS_PORT is unset, empty,    *)
(* not a number, zero or out of range.                                     *)
(***************************************************************************)
ValidPort(env) ==
  /\ env # Undefined
  /\ StringToNumber(env.s) # NaN
  /\ StringToNumber(env.s).n \in 1..MAX_PORT
  /\ Trim(env.s) # <<>>

C18_PortOrDefault ==
  probe.port # Pending =>
    probe.port = IF ValidPort(probe.env) THEN StringToNumber(probe.env.s)
                 ELSE JNum(DEFAULT_PORT)

(***************************************************************************)
(* C19: for a non-empty clipboard text, the string given to onPaste starts *)
(* with ESC[200~, ends with ESC[201~, and holds no other start or end      *)
(* marker: a marker is found at its first position and at its last six     *)
(* characters only.                                                        *)
(***************************************************************************)
C19_OneBracketPair ==
  (probe.forwarded # Pending /\ probe.text # <<>>) =>
    /\ probe.forwarded.t = "onPaste"
    /\ LET str == probe.forwarded.data
       IN /\ StartsAt(str, 1, PasteStart)
          /\ StartsAt(str, Len(str) - Len(PasteEnd) + 1, PasteEnd)
          /\ \A i \in 1..Len(str) :
               MarkerAt(str, i) => i \in {1, Len(str) - Len(PasteEnd) + 1}

(***************************************************************************)
(* C20 (pipe-fallback bridge): the text of a `stty cols C rows R` command  *)
(* that applyResize wrote to the process never appears in the bytes        *)
(* delivered to the client, however the output of the process around the   *)
(* echo is cut into chunks.                                                *)
(***************************************************************************)
\* the data frames of out, one after another
RECURSIVE PipeDelivered(_)
PipeDelivered(frames) ==
  IF frames = <<>> THEN <<>>
  ELSE (IF Head(frames).type = "data" THEN Head(frames).data ELSE <<>>)
       \o PipeDelivered(Tail(frames))

C20_ResizeEchoSuppressed ==
  \A i \in 1..Len(shell.stdin) :
    StartsAt(shell.stdin[i], 1, SttyCols)
      => ~Includes(PipeDelivered(shell.out),
                   SubSeq(shell.stdin[i], 1, Len(shell.stdin[i]) - 1))

(***************************************************************************)
(* C21: in the buffered bridge, while the session is ready, a non-empty    *)
(* outputBuffer always has its flush timer armed: the handle held by the   *)
(* session is a timer pending in the event loop.                           *)
(***************************************************************************)
C21_BufferedImpliesTimer ==
  (sess.impl = "node" /\ sess.reg = "ready" /\ sess.outputBuffer # <<>>)
    => (sess.flushTimer # 0 /\ sess.flushTimer \in sess.timers)

(***************************************************************************)
(* C22: at most one flush timer of the session is pending in the event     *)
(* loop at any time, and it is the one whose handle the session holds:     *)
(* onData schedules no second timer while one is pending.                  *)
(***************************************************************************)
C22_SingleTimer ==
  /\ Cardinality(sess.timers) <= 1
  /\ sess.timers \subseteq {sess.flushTimer}

C22_Witness ==
  /\ sess.impl = "node"
  /\ sess.nData = 2
  /\ sess.outputBuffer = <<"a", "a">>
  /\ sess.timers = {sess.flushTimer}
  /\ sess.last.kind = "data"

(***************************************************************************)
(* C23: no flush timer of the session is pending once the process has      *)
(* exited or the close hook has run: every flush, and the teardown, leave  *)
(* no timer behind that could fire later.                                  *)
(***************************************************************************)
C23_NoTimerAfterEnd ==
  (sess.pty = "exited" \/ sess.closeRan) => sess.timers = {}

(***************************************************************************)
(* C24: immediately after any flush of the buffered bridge (a step that    *)
(* empties a non-empty output buffer or delivers output bytes) the         *)
(* user-is-waiting flag userInputPending is false.                         *)
(***************************************************************************)
C24_FlagClearedByFlush ==
  [][(/\ sess.impl = "node"
      /\ \/ Delivered(sess'.out) # Delivered(sess.out)
         \/ sess.outputBuffer # <<>> /\ sess'.outputBuffer = <<>>)
       => ~sess'.userInputPending]_vars

(***************************************************************************)
(* C25: raw input that arrives after the owned process has exited is       *)
(* dropped: the message hook never issues a write to an exited process.    *)
(***************************************************************************)
C25_NoWriteAfterExit ==
  sess.deadWrites = 0

\* -------------------------------------------------------------------------
\* stripSuppressed on its own: texts are queued and chunks are stripped in
\* any order.  probe carries the queue the code keeps, everything fed to
\* and returned by stripSuppressed, and the state of the ordered queue the
\* specification describes, kept beside it for comparison.
\* -------------------------------------------------------------------------
MaxStripEvents == 4

StripTexts == {<<"a">>, <<"b">>, <<"a", "b">>}

StripChunks == {<<>>, <<"a">>, <<"b">>, <<"a", "b">>, <<"a", "a">>}

RECURSIVE CommonLen(_, _)
CommonLen(a, b) ==
  IF a = <<>> \/ b = <<>> \/ Head(a) # Head(b) THEN 0
  ELSE 1 + CommonLen(Tail(a), Tail(b))

\* The ordered queue of the specification, on the bytes not yet decided:
\* a head text found whole at the front is removed; a head text the front
\* is still a proper prefix of is waited for; otherwise the bytes that
\* agreed with it are delivered and the text is dropped.  With no text
\* queued everything is delivered.
RECURSIVE RefResolve(_, _, _)
RefResolve(queue, pending, out) ==
  IF queue = <<>>
  THEN [queue |-> <<>>, pending |-> <<>>, out |-> out \o pending]
  ELSE LET text == Head(queue)
           k == CommonLen(text, pending)
           rest == SubSeq(pending, k + 1, Len(pending))
       IN IF k = Len(text) THEN RefResolve(Tail(queue), rest, out)
          ELSE IF k = Len(pending)
               THEN [queue |-> queue, pending |-> pending, out |-> out]
               ELSE RefResolve(Tail(queue), rest, out \o SubSeq(pending, 1, k))

NoStrip ==
  [kind |-> "strip", suppressions |-> <<>>, queued |-> <<>>, fed |-> <<>>,
   delivered |-> <<>>, lastIn |-> <<>>, lastOut |-> <<>>, lastEmpty |-> FALSE,
   ref |-> [queue |-> <<>>, pending |-> <<>>, out |-> <<>>], n |-> 0]

StripInit ==
  /\ sess = NewSession("node")
  /\ probe = NoStrip
  /\ shell = NewShell
  /\ conns = NewConns("node")

\* queueSuppression(suppressions, text)
StripQueue ==
  /\ probe.n < MaxStripEvents
  /\ \E text \in StripTexts :
       probe' = [probe EXCEPT
                   !.suppressions = QueueSuppression(@, text),
                   !.queued = Append(@, text),
                   !.ref = [@ EXCEPT !.queue = Append(@, text)],
                   !.n = @ + 1]
  /\ UNCHANGED notProbe

\* data = stripSuppressed(suppressions, data) on the next chunk
StripChunk ==
  /\ probe.n < MaxStripEvents
  /\ \E data \in StripChunks :
       LET r == StripSuppressed(probe.suppressions, data)
       IN probe' = [probe EXCEPT
                      !.suppressions = r.queue,
                      !.fed = @ \o data,
                      !.delivered = @ \o r.bytes,
                      !.lastIn = data,
                      !.lastOut = r.bytes,
                      !.lastEmpty = (probe.suppressions = <<>>),
                      !.ref = RefResolve(@.queue, @.pending \o data, @.out),
                      !.n = @ + 1]
  /\ UNCHANGED notProbe

StripNext == StripQueue \/ StripChunk

StripSpec == StripInit /\ [][StripNext]_vars

\* the bytes of the head entry that stripSuppressed has matched so far
StripHeld ==
  IF probe.suppressions = <<>> THEN <<>>
  ELSE SubSeq(Head(probe.suppressions).bytes, 1, Head(probe.suppressions).index)

(***************************************************************************)
(* C26: stripSuppressed behaves as an ordered queue.  For every order of   *)
(* queued texts and output chunks, the bytes it has returned are the bytes *)
(* the ordered queue delivers (whole matches removed in queue order, every *)
(* other byte in order, the bytes of a failed partial match re-emitted, a  *)
(* text applied only to chunks stripped after it was queued), the bytes it *)
(* withholds are the partial match still open, and a call made with an     *)
(* empty queue returns its data unchanged.                                 *)
(***************************************************************************)
C26_OrderedQueue ==
  /\ probe.delivered = probe.ref.out
  /\ StripHeld = probe.ref.pending
  /\ probe.lastEmpty => probe.lastOut = probe.lastIn

C26_Witness ==
  /\ probe.queued = << <<"a", "b">>, <<"a">> >>
  /\ probe.fed = <<"a", "a", "b">>
  /\ probe.lastIn = <<"a", "b">>
  /\ probe.delivered = <<"a", "b">>
  /\ probe.suppressions = <<>>

(***************************************************************************)
(* C27: on a socket that stays open, either bridge delivers the whole      *)
(* output of the running process: whenever the bytes delivered so far fall *)
(* short of the bytes produced, the rest follows (the unbuffered bridge is *)
(* never short; the buffered bridge catches up at its next flush), so both *)
(* deliver the same total byte stream for the same chunks.                 *)
(***************************************************************************)
C27_Short ==
  /\ sess.readyState = 1
  /\ sess.pty = "running"
  /\ Delivered(sess.out) # sess.produced

C27_SameTotalStream == C27_Short ~> ~C27_Short

(***************************************************************************)
(* C28: the two pumps of the pipe-fallback bridge do not disturb each      *)
(* other through the suppression queue they share.  When a pump handles    *)
(* the first chunk of its stream while the head entry of the queue is      *)
(* partially matched (by a chunk of the other stream, the only one         *)
(* stripped so far), the step leaves that entry and its index as they are: *)
(* it is neither advanced, completed nor re-emitted.                       *)
(***************************************************************************)
C28_PumpsIndependent ==
  [][\A st \in Streams :
       (/\ shell.forwarded[st] = <<>>
        /\ shell'.forwarded[st] # <<>>
        /\ shell.suppressions # <<>>
        /\ Head(shell.suppressions).index > 0)
         => (/\ shell'.suppressions # <<>>
             /\ Head(shell'.suppressions) = Head(shell.suppressions))]_vars

\* -------------------------------------------------------------------------
\* The browser side: createInteractiveSession, in its two revisions
\* (src/src/lib/interactive-session.ts and src/unnamed/part_009).  probe
\* carries the closure's variables, the WebSocket objects it created, the
\* promises it returned and the calls it made to onSessionExit.  Session k
\* owns socket k and promise k.
\* -------------------------------------------------------------------------
MaxStarts == 2

MaxFrames == 2

MaxKeys == 1

ClientRevs == {"lib", "part_009"}

Commands == {<<"s", "h">>, <<"s", "h", LF>>}

ClientInbox == {"ready", "process-exit", "output"}

NewSocket == [readyState |-> 0, sent |-> <<>>, errorEvent |-> FALSE, closeEvent |-> FALSE]

NewClient(rev) ==
  [kind |-> "client", rev |-> rev,
   interactiveSocket |-> 0, interactiveMode |-> FALSE,
   interactiveInitQueued |-> <<>>,
   interactiveResolve |-> 0, interactiveReject |-> 0,
   dataListener |-> FALSE, status |-> "online",
   sockets |-> <<>>, promises |-> <<>>, timers |-> 0,
   exits |-> <<>>, exitsBy |-> <<>>, written |-> 0, refused |-> 0,
   nStarts |-> 0, nFrames |-> 0, nKeys |-> 0,
   last |-> [kind |-> "none", socket |-> 0]]

\* interactiveSocket && interactiveSocket.readyState === WebSocket.OPEN
SocketIsOpen(c) ==
  c.interactiveSocket # 0 /\ c.sockets[c.interactiveSocket].readyState = 1

\* resolve() or reject() of promise p; a settled promise keeps its state
Settle(c, p, how) ==
  IF p = 0 THEN c
  ELSE [c EXCEPT !.promises[p] =
          [state |-> IF @.state = "pending" THEN how ELSE @.state,
           settles |-> @.settles + 1]]

SendInteractiveInput(c, text) ==
  IF text = <<>> THEN c
  ELSE IF ~SocketIsOpen(c) THEN c
  ELSE [c EXCEPT !.sockets[c.interactiveSocket].sent =
                   Append(@, [type |-> "input", text |-> text])]

SendInteractiveJson(c, type) ==
  IF ~SocketIsOpen(c) THEN c
  ELSE [c EXCEPT !.sockets[c.interactiveSocket].sent =
                   Append(@, [type |-> type, text |-> <<>>])]

NotifyResize(c) ==
  IF ~c.interactiveMode THEN c ELSE SendInteractiveJson(c, "resize")

ResetInteractiveState(c, mode) ==
  LET c1 == IF SocketIsOpen(c)
            THEN [c EXCEPT !.sockets[c.interactiveSocket].readyState = 2]
            ELSE c
      c2 == [c1 EXCEPT !.interactiveSocket = 0,
                       !.interactiveMode = FALSE,
                       !.interactiveInitQueued = <<>>,
                       !.dataListener = FALSE,
                       !.status = mode]
      c3 == IF mode = "error" THEN Settle(c2, c2.interactiveReject, "rejected")
            ELSE Settle(c2, c2.interactiveResolve, "resolved")
  IN [c3 EXCEPT !.interactiveResolve = 0,
                !.interactiveReject = 0,
                !.exits = Append(@, mode)]

OpenInteractiveSocket(c) ==
  [c EXCEPT !.sockets = Append(@, NewSocket),
            !.interactiveSocket = Len(c.sockets) + 1]

\* the listener of the socket's open event
OpenListener(c) ==
  LET c1 == SendInteractiveJson(c, "init")
  IN IF c1.interactiveInitQueued = <<>> THEN c1
     ELSE [c1 EXCEPT !.timers = @ + 1]

\* the callback of the 100 ms timer armed by the open listener
InitTimer(c) ==
  [SendInteractiveInput(c, c.interactiveInitQueued)
     EXCEPT !.interactiveInitQueued = <<>>]

\* the listener of terminal.onData registered by startInteractiveSession
DataListener(c, data) ==
  IF c.interactiveMode THEN SendInteractiveInput(c, data) ELSE c

HandleInteractiveMessage(c, frame) ==
  CASE frame \in {"ready", "pong"} -> c
    [] frame = "process-exit" ->
         ResetInteractiveState([c EXCEPT !.written = @ + 1], "online")
    [] OTHER -> [c EXCEPT !.written = @ + 1]

StartInteractiveSession(c, command) ==
  IF c.interactiveMode
  THEN [c EXCEPT !.status = "interactive", !.refused = @ + 1]
  ELSE LET c0 == IF c.rev = "part_009"
                 THEN [Settle(c, c.interactiveReject, "rejected")
                         EXCEPT !.interactiveResolve = 0, !.interactiveReject = 0]
                 ELSE c
           p == Len(c.promises) + 1
       IN OpenInteractiveSocket(
            [c0 EXCEPT
               !.interactiveMode = TRUE,
               !.interactiveInitQueued =
                  IF command # <<>> /\ command[Len(command)] = LF
                  THEN command ELSE command \o <<LF>>,
               !.status = "interactive",
               !.dataListener = TRUE,
               !.promises = Append(@, [state |-> "pending", settles |-> 0]),
               !.interactiveResolve = p,
               !.interactiveReject = p])

\* Bookkeeping of a step: the event that ran and the socket it came from,
\* and that socket for every call of onSessionExit the step made.
Note(old, new, kind, socket) ==
  [new EXCEPT
     !.last = [kind |-> kind, socket |-> socket],
     !.exitsBy = @ \o [i \in 1..(Len(new.exits) - Len(old.exits)) |-> socket]]

ClientInit ==
  /\ sess = NewSession("node")
  /\ probe \in {NewClient(rev) : rev \in ClientRevs}
  /\ shell = NewShell
  /\ conns = NewConns("node")

ClientStart ==
  /\ probe.nStarts < MaxStarts
  /\ \E command \in Commands :
       probe' = Note(probe,
                     [StartInteractiveSession(probe, command) EXCEPT !.nStarts = @ + 1],
                     "start", 0)
  /\ UNCHANGED notProbe

\* the connection of socket s is established and its open event delivered
NetOpen ==
  /\ \E s \in DOMAIN probe.sockets :
       /\ probe.sockets[s].readyState = 0
       /\ probe' = Note(probe,
                        OpenListener([probe EXCEPT !.sockets[s].readyState = 1]),
                        "open", s)
  /\ UNCHANGED notProbe

\* a frame of the server arrives on the open socket s
NetMessage ==
  /\ probe.nFrames < MaxFrames
  /\ \E s \in DOMAIN probe.sockets, frame \in ClientInbox :
       /\ probe.sockets[s].readyState = 1
       /\ probe' = Note(probe,
                        [HandleInteractiveMessage(probe, frame) EXCEPT !.nFrames = @ + 1],
                        "message", s)
  /\ UNCHANGED notProbe

\* the connection of socket s fails: its error event is delivered
NetFail ==
  /\ \E s \in DOMAIN probe.sockets :
       /\ probe.sockets[s].readyState \in {0, 1, 2}
       /\ ~probe.sockets[s].errorEvent
       /\ probe' = Note(probe,
                        ResetInteractiveState(
                          [probe EXCEPT !.sockets[s].readyState = 3,
                                        !.sockets[s].errorEvent = TRUE],
                          "error"),
                        "error", s)
  /\ UNCHANGED notProbe

\* the connection of socket s is over (closed by the server, by close(), or
\* after it failed): its close event is delivered
NetClose ==
  /\ \E s \in DOMAIN probe.sockets :
       /\ probe.sockets[s].readyState \in {1, 2, 3}
       /\ ~probe.sockets[s].closeEvent
       /\ probe' = Note(probe,
                        ResetInteractiveState(
                          [probe EXCEPT !.sockets[s].readyState = 3,
                                        !.sockets[s].closeEvent = TRUE],
                          "online"),
                        "close", s)
  /\ UNCHANGED notProbe

InitTimerFire ==
  /\ probe.timers > 0
  /\ probe' = Note(probe, [InitTimer(probe) EXCEPT !.timers = @ - 1], "timer", 0)
  /\ UNCHANGED notProbe

\* the user types in the terminal, or the terminal is resized
TerminalData ==
  /\ probe.dataListener
  /\ probe.nKeys < MaxKeys
  /\ probe' = Note(probe,
                   [DataListener(probe, <<"l">>) EXCEPT !.nKeys = @ + 1],
                   "data", 0)
  /\ UNCHANGED notProbe

TerminalResize ==
  /\ probe.nKeys < MaxKeys
  /\ probe' = Note(probe, [NotifyResize(probe) EXCEPT !.nKeys = @ + 1], "resize", 0)
  /\ UNCHANGED notProbe

ClientNext ==
  \/ ClientStart
  \/ NetOpen
  \/ NetMessage
  \/ NetFail
  \/ NetClose
  \/ InitTimerFire
  \/ TerminalData
  \/ TerminalResize

ClientSpec == ClientInit /\ [][ClientNext]_vars

\* the step delivers a close or error event of socket s while another
\* socket, of a session started later, is the current interactiveSocket
StaleEvent(s) ==
  /\ probe'.last.kind \in {"close", "error"}
  /\ probe'.last.socket = s
  /\ probe.interactiveSocket > s

(***************************************************************************)
(* C29: a close or error event of a socket that is no longer the current   *)
(* interactiveSocket leaves the session started after it alone:            *)
(* interactiveMode and interactiveSocket keep their values, the newer      *)
(* socket is not closed, and the newer session's promise is not settled    *)
(* (so the newer socket still sends its init frame when it opens).         *)
(***************************************************************************)
C29_StaleEventIgnored ==
  [][\A s \in DOMAIN probe.sockets :
       StaleEvent(s) =>
         /\ probe'.interactiveMode = probe.interactiveMode
         /\ probe'.interactiveSocket = probe.interactiveSocket
         /\ probe'.promises = probe.promises
         /\ \A t \in DOMAIN probe.sockets :
              t # s => probe'.sockets[t] = probe.sockets[t]]_vars

\* the calls of onSessionExit made by events of socket k
ExitCalls(k) == {i \in DOMAIN probe.exitsBy : probe.exitsBy[i] = k}

(***************************************************************************)
(* C30: for every session started, the promise returned is settled at most *)
(* once and onSessionExit is invoked at most once, and once the session's  *)
(* socket has delivered its close event both have happened exactly once.   *)
(***************************************************************************)
C30_SettledAndExitedOnce ==
  \A k \in DOMAIN probe.promises :
    /\ probe.promises[k].settles <= 1
    /\ Cardinality(ExitCalls(k)) <= 1
    /\ probe.sockets[k].closeEvent =>
         /\ probe.promises[k].settles = 1
         /\ Cardinality(ExitCalls(k)) = 1

====
